---- MODULE Spec2Model ----
(***************************************************************************)
(* A state-machine model of the chart components of d3-complex-charts:     *)
(* the NetworkGraph component (src/unnamed/part_001) in full, and the      *)
(* load / resize / build life cycle that Treemap.tsx and PackedCircles.tsx *)
(* share with it.                                                          *)
(*                                                                         *)
(* Units.  Scales are kept in tenths (10 = 1.0x), lengths in pixels,       *)
(* heights in quarter pixels (0.75 * width is then an integer), the        *)
(* simulation's alpha as the number of timer steps left before it falls    *)
(* below alphaMin, and its alphaTarget in tenths.                          *)
(***************************************************************************)
EXTENDS Integers, Sequences, FiniteSets, TLC

VARIABLES
    chart,            \* which component is mounted: "network", "treemap", "packed"
    mounted,          \* the component instance is mounted in the host shell
    hostCrashed,      \* an exception left the component and took the host shell down
    fetchPending,     \* the fetch promise of this instance has not settled
    fetchCount,       \* fetches issued by this instance
    response,         \* what the fetch settled with (the raw payload)
    warned,           \* the links named by the loader's console.warn
    data,             \* useState data
    isLoading,        \* useState isLoading
    error,            \* useState error ("null" or the message)
    clientWidth,      \* clientWidth of the .visualization container
    dimensions,       \* useState dimensions
    constructed,      \* a visualization construction was started by this instance
    scene,            \* what the svg element holds: "empty" or "drawn"
    current,          \* engine slot of the drawn scene (0: none)
    engines,          \* force simulations that exist, by slot
    gestures,         \* drag gestures in progress, by pointer
    released,         \* what the pointer-up that has just happened left behind
    zoomLevel,        \* useState zoomLevel
    transform,        \* the svg element's stored zoom transform (d3.zoomTransform)
    zoomG,            \* transform attribute of the scene's zoom-container group
    zoomBehaviorRef,  \* zoomBehaviorRef.current is set
    transition,       \* the zoom transition scheduled on the svg element
    hoverD,           \* datum of the last mouseover not yet followed by mouseout
    connectedNodeIds, \* the highlight set computed by that mouseover
    pointerOver,      \* the node circle of the scene the pointer is over, or ""
    simulationNodes,  \* the node objects as the last build created them
    fills,            \* fill of each node circle of the scene (palette entry)
    legend,           \* the legend group: its placement and its rows
    nodeConnectionCounts, \* the map the last build filled for the tooltip
    nodeStyle,        \* opacity, stroke and stroke width of each node circle
    linkStyle,        \* the same of each link line, with its stroke-opacity
    tooltip,          \* the tooltip element: shown or hidden, and its text
    presses           \* log of the zoom-button presses since the last other zoom event

vars == <<chart, mounted, hostCrashed, fetchPending, fetchCount, response, warned,
          data, isLoading, error, clientWidth, dimensions, constructed, scene,
          current, engines, gestures, released, zoomLevel, transform, zoomG,
          zoomBehaviorRef, transition, hoverD, connectedNodeIds, pointerOver,
          simulationNodes,
          fills, legend, nodeConnectionCounts, nodeStyle, linkStyle, tooltip,
          presses>>

loaderVars == <<fetchPending, fetchCount, response, warned, data, isLoading>>
sceneVars  == <<constructed, scene, current, engines>>
zoomVars   == <<zoomLevel, transform, zoomG, zoomBehaviorRef, transition, presses>>
hoverVars  == <<hoverD, connectedNodeIds, pointerOver>>
dragVars   == <<gestures, released>>
drawnVars  == <<simulationNodes, fills, legend, nodeConnectionCounts>>
styleVars  == <<nodeStyle, linkStyle, tooltip>>

-----------------------------------------------------------------------------
(* Bounds of the model *)

\* longest link list of an enumerated payload
MaxLinks == 2
\* engine slots: simulations that can exist at once before resizes are held back
MaxEngines == 2
\* timer steps a simulation takes to cool below alphaMin (about 300 in d3)
AlphaSteps == 2
\* pointers that can drag at once (multi-touch)
MaxPointers == 2
\* farthest pan of the view centre, in view widths
MaxPan == 2
\* longest run of zoom-in presses that is followed
MaxPresses == 2
\* most nodes of a payload enumerated for the colours
MaxNodes == 12

-----------------------------------------------------------------------------
(* Program constants *)

DefaultWidth == 800
MaxHeight == 600
ZoomStep == 2
MinZoom == 5
MaxZoom == 30
DragAlphaTarget == 3
\* d3.schemeCategory10
PaletteSize == 10
\* (Math.random() - 0.5) * 100
SeedSpread == 50
\* stroke widths in tenths of a pixel, opacities in percent
NodeStrokeWidth == 15
HoverStrokeWidth == 20
FullOpacity == 100
LinkOpacity == 60
DimNodeOpacity == 20
DimLinkOpacity == 10
LegendPadding == 20
LegendWidth == 120
LegendRowHeight == 20

Min(a, b) == IF a < b THEN a ELSE b
Max(a, b) == IF a > b THEN a ELSE b

Charts == {"network", "treemap", "packed"}

LoadErrorMessage(c) ==
    CASE c = "network" -> "Error loading network graph data"
      [] c = "treemap" -> "Error loading treemap data"
      [] OTHER         -> "Error loading packed circles data"

RenderErrorMessage == "Failed to render network graph"

-----------------------------------------------------------------------------
(* Payloads *)

Node(i, g) == [id |-> i, group |-> g]
Link(s, t, v) == [source |-> s, target |-> t, value |-> v]

NullData == [null |-> TRUE, nodes |-> <<>>, links |-> <<>>]
Dataset(ns, ls) == [null |-> FALSE, nodes |-> ns, links |-> ls]

\* what the fetch can settle with
Json(ns, ls) == [kind |-> "ok", nodes |-> ns, links |-> ls]
Failure(k) == [kind |-> k, nodes |-> <<>>, links |-> <<>>]
NoResponse == Failure("none")

\* "transport": fetch rejects; "notOk": response.ok is false; "badJson":
\* response.json() rejects; "noNodes" / "noLinks": the document parses but
\* has no nodes / no links array
TransportFailures == {Failure("transport"), Failure("notOk"), Failure("badJson")}
ShapeFailures == {Failure("noNodes"), Failure("noLinks")}

NodeIdsOf(ns) == {ns[i].id : i \in DOMAIN ns}

\* the loader's validation step
InvalidLinks(json) ==
    LET nodeIds == NodeIdsOf(json.nodes)
    IN  SelectSeq(json.links,
                  LAMBDA link : ~(link.source \in nodeIds) \/ ~(link.target \in nodeIds))

\* a filter that keeps a link as soon as one of its endpoints is known
FilteredLinksEither(json) ==
    LET nodeIds == NodeIdsOf(json.nodes)
    IN  SelectSeq(json.links,
                  LAMBDA link : link.source \in nodeIds \/ link.target \in nodeIds)

FilteredLinks(json) ==
    LET nodeIds == NodeIdsOf(json.nodes)
    IN  SelectSeq(json.links,
                  LAMBDA link : link.source \in nodeIds /\ link.target \in nodeIds)

Validate(json) ==
    IF Len(InvalidLinks(json)) > 0
    THEN Dataset(json.nodes, FilteredLinks(json))
    ELSE Dataset(json.nodes, json.links)

-----------------------------------------------------------------------------
(* Dimensions *)

\* the aspect ratio alone, without the absolute maximum
AspectHeightUncapped(c, containerWidth) ==
    IF c = "packed" THEN 4 * containerWidth ELSE 3 * containerWidth

\* height in quarter pixels: Math.min(containerWidth * 0.75, 600)
AspectHeight(c, containerWidth) ==
    IF c = "packed"
    THEN Min(4 * containerWidth, 4 * MaxHeight)
    ELSE Min(3 * containerWidth, 4 * MaxHeight)

InitialDimensions == [width |-> DefaultWidth, height |-> 4 * MaxHeight]

ResizedDimensions(c, cw) ==
    LET containerWidth == IF cw = 0 THEN DefaultWidth ELSE cw
    IN  [width |-> containerWidth, height |-> AspectHeight(c, containerWidth)]

\* the render branches: the container, the svg and the zoom buttons exist
\* only when neither the loading nor the error branch is returned
Displayed == mounted /\ ~isLoading /\ error = "null"

-----------------------------------------------------------------------------
(* Force simulations *)

Slots == 1..MaxEngines
Pointers == 1..MaxPointers

EmptyNodes == [i \in {} |-> 0]

NoEngine == [live |-> FALSE, running |-> FALSE, alpha |-> 0, alphaTarget |-> 0,
             nodes |-> EmptyNodes, links |-> <<>>]

\* a drag gesture; besides what d3-drag keeps (the subject, and through the
\* subject its simulation) the record logs the gesture for the properties:
\* whether the pointer has moved, whether another gesture of the same drag
\* behaviour was in progress during it, whether its simulation has ticked
\* during it, the subject's position at pointer-down (x0, y0), whether
\* another gesture has held the same subject during it, and the position of
\* its latest drag event (px, py)
NoGesture == [active |-> FALSE, engine |-> 0, subject |-> "", moved |-> FALSE,
              overlapped |-> FALSE, ticked |-> FALSE, x0 |-> 0, y0 |-> 0,
              shared |-> FALSE, px |-> 0, py |-> 0]

\* what the last pointer-up left behind: whether the subject is where it was
\* at pointer-down, whether it is still pinned, and the simulation's
\* alphaTarget
NoRelease == [ended |-> FALSE, moved |-> FALSE, overlapped |-> FALSE,
              ticked |-> FALSE, restored |-> FALSE, pinned |-> FALSE,
              alphaTarget |-> 0]

\* a simulation node: position, and the pinned position fx, fy (null: pinned
\* is FALSE and fx, fy are kept 0)
SimNode(px, py) == [x |-> px, y |-> py, pinned |-> FALSE, fx |-> 0, fy |-> 0]

\* simulationLinks: each link of the dataset with its endpoints resolved
\* through nodeMap, the unresolved ones dropped; a node object is named by
\* its id (ids are unique within a dataset)
simulationLinks(d) ==
    LET nodeMap == NodeIdsOf(d.nodes)
    IN  SelectSeq(d.links,
                  LAMBDA link : link.source \in nodeMap /\ link.target \in nodeMap)

\* d3.forceSimulation(...) followed by the 50 pre-warm ticks and
\* simulation.alpha(1).restart(): `layout` is where the physics has put the
\* nodes by then
NewEngine(d, layout) ==
    [live |-> TRUE, running |-> TRUE, alpha |-> AlphaSteps, alphaTarget |-> 0,
     nodes |-> [i \in NodeIdsOf(d.nodes) |-> SimNode(layout[i][1], layout[i][2])],
     links |-> simulationLinks(d)]

Layouts(ids, points) == [ids -> points]

GesturesOn(gs, s) == {p \in Pointers : gs[p].active /\ gs[p].engine = s}

\* simulations nothing can reach any more (stopped, not the drawn scene's,
\* not the subject of a drag) are garbage and leave the model
Collect(engs, cur, gs) ==
    [s \in Slots |->
        IF engs[s].live /\ s # cur /\ ~engs[s].running /\ GesturesOn(gs, s) = {}
        THEN NoEngine ELSE engs[s]]

FreeSlot(engs) == CHOOSE s \in Slots : ~engs[s].live /\ \A r \in Slots : ~engs[r].live => s <= r
HasFreeSlot(engs) == \E s \in Slots : ~engs[s].live

Running == {s \in Slots : engines[s].live /\ engines[s].running}

-----------------------------------------------------------------------------
(* View transform *)

Transform(tk, tx, ty) == [k |-> tk, x |-> tx, y |-> ty]
zoomIdentity == Transform(10, 0, 0)

\* a group's transform attribute: absent, or a transform
NoAttr == [set |-> FALSE, k |-> 10, x |-> 0, y |-> 0]
Attr(t) == [set |-> TRUE, k |-> t.k, x |-> t.x, y |-> t.y]

\* the transition on the svg element: the view it starts from, its target,
\* and whether the scene it drives has been replaced since it started.
\* Once it has run to its end the record stays, inactive, with `from` moved
\* to the target and `changed` telling whether it started elsewhere.
NoTransition == [active |-> FALSE, kind |-> "none", target |-> zoomIdentity,
                 from |-> zoomIdentity, stale |-> FALSE, changed |-> FALSE]

-----------------------------------------------------------------------------
(* The drawn scene: node objects, colours, legend, styles *)

\* the object data.nodes.map creates for a node, before the simulation
\* touches it: x is kept in half pixels and y in eighths of a pixel (the
\* centre is width / 2 and, the height being in quarter pixels, height / 8);
\* jx, jy is what (Math.random() - 0.5) * 100 came to
SeedNode(node, dim, jx, jy) ==
    [id |-> node.id, group |-> node.group,
     x |-> dim.width + 2 * jx, y |-> dim.height + 8 * jy,
     vx |-> 0, vy |-> 0, pinned |-> FALSE]

NoNodes == <<>>

\* a node object whose random offsets do not depend on the dimensions
SeedNodesAtDefault(d, dim, layout) ==
    [i \in DOMAIN d.nodes |->
        SeedNode(d.nodes[i], [width |-> DefaultWidth, height |-> 4 * MaxHeight],
                 layout[d.nodes[i].id][3], layout[d.nodes[i].id][4])]

\* simulationNodes, in the order of data.nodes
SeedNodes(d, dim, layout) ==
    [i \in DOMAIN d.nodes |->
        SeedNode(d.nodes[i], dim, layout[d.nodes[i].id][3], layout[d.nodes[i].id][4])]

\* Array.from(new Set(data.nodes.map(node => node.group))): a Set keeps its
\* values in insertion order
RECURSIVE DistinctGroups(_, _)
DistinctGroups(ns, acc) ==
    IF ns = <<>>
    THEN acc
    ELSE DistinctGroups(Tail(ns),
                        IF \E i \in DOMAIN acc : acc[i] = Head(ns).group
                        THEN acc
                        ELSE Append(acc, Head(ns).group))

groupIds(d) == DistinctGroups(d.nodes, <<>>)

\* a scale that takes the palette entry from the group's value
colorScaleByValue(domain, g) == g % PaletteSize

\* d3.scaleOrdinal().domain(groupIds).range(d3.schemeCategory10): the entry
\* of the palette (0-based) at the group's index in the domain, cyclically
colorScale(domain, g) ==
    ((CHOOSE i \in DOMAIN domain : domain[i] = g) - 1) % PaletteSize

GroupOf(d, id) == (d.nodes[CHOOSE i \in DOMAIN d.nodes : d.nodes[i].id = id]).group

\* .attr('fill', d => colorScale(d.group))
NodeFills(d) ==
    [id \in NodeIdsOf(d.nodes) |-> colorScale(groupIds(d), GroupOf(d, id))]

NoFills == [id \in {} |-> 0]

\* the legend group, its parent element, and one row per group
NoLegend == [parent |-> "svg", at |-> <<0, 0>>, rows |-> <<>>]

\* svg.append('g'): the legend is a child of the svg, not of the zoom group
Legend(d, dim) ==
    [parent |-> "svg",
     at |-> <<dim.width - LegendWidth - LegendPadding, LegendPadding>>,
     rows |-> [i \in DOMAIN groupIds(d) |->
                  [group |-> groupIds(d)[i],
                   fill |-> colorScale(groupIds(d), groupIds(d)[i]),
                   y |-> (i - 1) * LegendRowHeight + LegendRowHeight]]]

\* a count of the links a node is the source of
RECURSIVE CountSources(_, _)
CountSources(links, counts) ==
    IF links = <<>>
    THEN counts
    ELSE CountSources(Tail(links),
                      [counts EXCEPT ![Head(links).source] = @ + 1])

\* nodeConnectionCounts: simulationLinks.forEach adds one for the source and
\* one for the target of every link; a node that is in no link has no entry,
\* which the tooltip reads as 0
RECURSIVE CountConnections(_, _)
CountConnections(links, counts) ==
    IF links = <<>>
    THEN counts
    ELSE LET link == Head(links)
             c1 == [counts EXCEPT ![link.source] = @ + 1]
         IN  CountConnections(Tail(links), [c1 EXCEPT ![link.target] = @ + 1])

\* the styles a circle and a line have once drawn: nothing is set with
\* .style(), so the opacity is the initial 1; a line's width is written as
\* sqrt(value) + plus
NodeDefault == [opacity |-> FullOpacity, stroke |-> "#fff", width |-> NodeStrokeWidth]
LinkDefault(link) ==
    [opacity |-> FullOpacity, strokeOpacity |-> LinkOpacity, stroke |-> "#999",
     width |-> [sqrtOf |-> link.value, plus |-> 0]]

NoStyles == [id \in {} |-> NodeDefault]
NoTooltip == [shown |-> FALSE, id |-> "", group |-> 0, connections |-> 0]

\* zoom-button presses: the zoomLevel before the first of a run of zoom-in
\* presses, their number, whether one zoom-out press has followed, whether a
\* frame of a transition has been shown since the last press, and whether
\* one had when a later press of the run came
NoPresses == [base |-> 0, ins |-> 0, outs |-> 0, framed |-> FALSE, interrupted |-> FALSE]

-----------------------------------------------------------------------------
(* Construction of the visualization: the body of the third effect *)

\* where an exception can leave the try block: nowhere, before the
\* simulation exists, or after it has been created and started
ThrowPoints == {"none", "beforeSimulation", "afterSimulation"}

\* a transition that is running when the scene is replaced keeps driving the
\* zoom behaviour it was started on, whose group has left the document
Stale(tr) == IF tr.active THEN [tr EXCEPT !.stale = TRUE] ELSE tr

\* svg.selectAll('*').remove() takes the circle under the pointer away
\* without a mouseout event; where the new circles are drawn the pointer is
\* over the new circle of the same node, or over no node
UnderPointerAfterRebuild == {"", pointerOver}

BuildNetwork(d, throwAt, layout) ==
    LET kept == Collect(engines, 0, gestures)
    IN  /\ constructed' = TRUE
        /\ UNCHANGED <<hostCrashed, mounted, dragVars, transform, zoomLevel, hoverD,
                       connectedNodeIds, tooltip, presses>>
        /\ CASE throwAt = "none" ->
                  /\ HasFreeSlot(kept)
                  /\ pointerOver' \in UnderPointerAfterRebuild
                  /\ LET s == FreeSlot(kept)
                     IN  /\ engines' = [kept EXCEPT ![s] = NewEngine(d, layout)]
                         /\ current' = s
                  /\ scene' = "drawn"
                  /\ simulationNodes' = SeedNodes(d, dimensions', layout)
                  /\ fills' = NodeFills(d)
                  /\ legend' = Legend(d, dimensions')
                  /\ nodeConnectionCounts' =
                        CountConnections(simulationLinks(d),
                                         [id \in NodeIdsOf(d.nodes) |-> 0])
                  /\ nodeStyle' = [id \in NodeIdsOf(d.nodes) |-> NodeDefault]
                  /\ linkStyle' = [i \in DOMAIN simulationLinks(d) |->
                                      LinkDefault(simulationLinks(d)[i])]
                  /\ zoomG' = NoAttr
                  /\ zoomBehaviorRef' = TRUE
                  /\ transition' = Stale(transition)
                  /\ error' = "null"
             [] throwAt = "beforeSimulation" ->
                  /\ engines' = kept
                  /\ current' = 0
                  /\ scene' = "empty"
                  /\ error' = RenderErrorMessage
                  /\ pointerOver' = ""
                  /\ transition' = NoTransition
                  /\ simulationNodes' = NoNodes
                  /\ fills' = NoFills
                  /\ legend' = NoLegend
                  /\ nodeConnectionCounts' = NoFills
                  /\ nodeStyle' = NoStyles
                  /\ linkStyle' = <<>>
                  /\ UNCHANGED <<zoomG, zoomBehaviorRef>>
             [] OTHER ->
                  /\ HasFreeSlot(kept)
                  /\ engines' = [kept EXCEPT ![FreeSlot(kept)] = NewEngine(d, layout)]
                  /\ current' = 0
                  /\ scene' = "empty"
                  /\ error' = RenderErrorMessage
                  /\ pointerOver' = ""
                  /\ transition' = NoTransition
                  /\ simulationNodes' = NoNodes
                  /\ fills' = NoFills
                  /\ legend' = NoLegend
                  /\ nodeConnectionCounts' = NoFills
                  /\ nodeStyle' = NoStyles
                  /\ linkStyle' = <<>>
                  /\ UNCHANGED <<zoomG, zoomBehaviorRef>>

\* Treemap.tsx and PackedCircles.tsx: the same effect without a try block
BuildHierarchy(throwAt) ==
    /\ constructed' = TRUE
    /\ error' = "null"
    /\ UNCHANGED <<engines, current, dragVars, zoomVars, hoverVars,
                   drawnVars, styleVars>>
    /\ IF throwAt = "none"
       THEN /\ scene' = "drawn"
            /\ UNCHANGED <<hostCrashed, mounted>>
       ELSE /\ scene' = "empty"
            /\ hostCrashed' = TRUE
            /\ mounted' = FALSE

\* the effect without its guard
EffectUnguarded(d, err, throwAt, layout) ==
    IF chart = "network"
    THEN BuildNetwork(d, throwAt, layout)
    ELSE BuildHierarchy(throwAt)

\* the effect, run after a render in which data is d and error is err; its
\* guard: if (!data || !svgRef.current || isLoading) return, the svg
\* being absent in the error branch
Effect(d, err, throwAt, layout) ==
    IF d.null \/ err # "null"
    THEN /\ throwAt = "none"
         /\ error' = err
         /\ UNCHANGED <<sceneVars, dragVars, zoomVars, hoverVars,
                   drawnVars, styleVars, hostCrashed, mounted>>
    ELSE IF chart = "network"
         THEN BuildNetwork(d, throwAt, layout)
         ELSE BuildHierarchy(throwAt)

-----------------------------------------------------------------------------
(* The loader: the first effect *)

\* a loader that does not look at response.ok
LoadFailsIgnoringStatus(c, resp) ==
    \/ resp \in TransportFailures \ {Failure("notOk")}
    \/ c = "network" /\ resp \in ShapeFailures

LoadFails(c, resp) ==
    \/ resp \in TransportFailures
    \/ c = "network" /\ resp \in ShapeFailures

\* what setData publishes on success; the hierarchy charts publish the
\* document as it is
Published(c, resp) ==
    IF c = "network" THEN Validate(resp) ELSE Dataset(resp.nodes, resp.links)

FetchResolve(resp, throwAt, layout) ==
    /\ mounted
    /\ fetchPending
    /\ fetchPending' = FALSE
    /\ response' = resp
    /\ isLoading' = FALSE
    /\ UNCHANGED <<chart, fetchCount, clientWidth, dimensions>>
    /\ IF LoadFails(chart, resp)
       THEN /\ UNCHANGED <<data, warned>>
            /\ Effect(data, LoadErrorMessage(chart), throwAt, layout)
       ELSE /\ data' = Published(chart, resp)
            /\ warned' = IF chart = "network" THEN InvalidLinks(resp) ELSE <<>>
            /\ Effect(Published(chart, resp), error, throwAt, layout)

-----------------------------------------------------------------------------
(* Resize: the second effect *)

\* the window is resized, the container's width becomes cw, and the
\* listener registered on mount runs: if (containerRef.current) ...
HandleResize(cw, throwAt, layout) ==
    /\ mounted
    /\ clientWidth' = cw
    /\ UNCHANGED <<chart, loaderVars>>
    /\ IF Displayed
       THEN /\ dimensions' = ResizedDimensions(chart, cw)
            /\ Effect(data, error, throwAt, layout)
       ELSE /\ throwAt = "none"
            /\ UNCHANGED <<dimensions, sceneVars, dragVars, zoomVars, hoverVars,
                   drawnVars, styleVars,
                           error, hostCrashed, mounted>>

-----------------------------------------------------------------------------
(* Mounting and unmounting by the host shell *)

\* the instance and its DOM are gone; the simulations it started are not
\* stopped, and the drag listeners on the window stay
Unmount ==
    /\ mounted
    /\ mounted' = FALSE
    /\ fetchPending' = FALSE
    /\ fetchCount' = 0
    /\ response' = NoResponse
    /\ warned' = <<>>
    /\ data' = NullData
    /\ isLoading' = TRUE
    /\ error' = "null"
    /\ dimensions' = InitialDimensions
    /\ constructed' = FALSE
    /\ scene' = "empty"
    /\ current' = 0
    /\ engines' = Collect(engines, 0, gestures)
    /\ zoomLevel' = 10
    /\ transform' = zoomIdentity
    /\ zoomG' = NoAttr
    /\ zoomBehaviorRef' = FALSE
    /\ transition' = NoTransition
    /\ hoverD' = ""
    /\ pointerOver' = ""
    /\ connectedNodeIds' = {}
    /\ simulationNodes' = NoNodes
    /\ fills' = NoFills
    /\ legend' = NoLegend
    /\ nodeConnectionCounts' = NoFills
    /\ nodeStyle' = NoStyles
    /\ linkStyle' = <<>>
    /\ tooltip' = NoTooltip
    /\ presses' = NoPresses
    /\ UNCHANGED <<chart, hostCrashed, clientWidth, dragVars>>

\* a fresh instance: every useState and useRef at its initial value, the
\* fetch issued, and the initial handleResize() run against the loading
\* branch, in which the container does not exist
Mount(c) ==
    /\ ~mounted
    /\ ~hostCrashed
    /\ chart' = c
    /\ mounted' = TRUE
    /\ fetchPending' = TRUE
    /\ fetchCount' = 1
    /\ UNCHANGED <<hostCrashed, response, warned, data, isLoading, error, clientWidth,
                   dimensions, sceneVars, dragVars, zoomVars, hoverVars,
                   drawnVars, styleVars>>

-----------------------------------------------------------------------------
(* The simulation's timer *)

\* one step of a running simulation: alpha moves toward alphaTarget, the
\* forces move every free node, a pinned node is put on its pin, and the
\* timer stops once alpha is below alphaMin
Step(e, layout) ==
    LET a == IF e.alphaTarget = 0 THEN Max(e.alpha - 1, 0) ELSE Max(e.alpha - 1, 1)
    IN  [e EXCEPT !.alpha = a,
                  !.running = (a > 0),
                  !.nodes = [i \in DOMAIN e.nodes |->
                                IF e.nodes[i].pinned
                                THEN [e.nodes[i] EXCEPT !.x = e.nodes[i].fx,
                                                        !.y = e.nodes[i].fy]
                                ELSE [e.nodes[i] EXCEPT !.x = layout[i][1],
                                                        !.y = layout[i][2]]]]

SimTick(s, layout) ==
    /\ engines[s].live
    /\ engines[s].running
    /\ engines' = Collect([engines EXCEPT ![s] = Step(engines[s], layout)],
                          current, gestures)
    /\ gestures' = [p \in Pointers |->
                        IF gestures[p].active /\ gestures[p].engine = s
                        THEN [gestures[p] EXCEPT !.ticked = TRUE]
                        ELSE gestures[p]]
    /\ released' = NoRelease
    /\ UNCHANGED <<chart, mounted, hostCrashed, loaderVars, error, clientWidth,
                   dimensions, constructed, scene, current, zoomVars,
                   hoverVars,
                   drawnVars, styleVars>>

-----------------------------------------------------------------------------
(* Zoom and pan *)

\* centre of the zoom extent [[0, 0], [width, height]], and its larger side
ViewCentre(dim) == <<dim.width \div 2, dim.height \div 8>>
ViewSize(dim) == Max(dim.width, dim.height \div 4)

\* .scaleExtent([0.5, 3])
Clamp(tk) == Max(MinZoom, Min(MaxZoom, tk))

\* the transform of scale tk that keeps under the screen point p the world
\* point that t shows there (d3-zoom's scale followed by translate)
ScaleAbout(t, p, tk) ==
    Transform(tk, p[1] - ((p[1] - t.x) * tk) \div t.k,
                  p[2] - ((p[2] - t.y) * tk) \div t.k)

\* the world point shown at the view centre, as an offset from that centre
\* in view widths
CentreOffset(t, dim) ==
    LET p == ViewCentre(dim)
    IN  <<(((p[1] - t.x) * 10) \div t.k - p[1]) \div ViewSize(dim),
          (((p[2] - t.y) * 10) \div t.k - p[2]) \div ViewSize(dim)>>

\* d3.interpolateZoom from the view (centre offset c0, scale k0) to the
\* identity: when the centres differ the path first zooms out, and its
\* smallest scale is k0 / sqrt(1 + b0^2),
\*   b0 = (k0^2 (1 + 4 D^2) - 1) / (4 D k0),  D = |c0| in view widths;
\* tk is on the path when it is not below that (scales in tenths, D2 = D^2)
OnZoomOutArc(tk, k0, D2) ==
    LET P == k0 * k0 * (1 + 4 * D2) - 100
    IN  /\ D2 > 0
        /\ P > 0
        /\ tk * tk * (1600 * D2 + (P \div k0) * (P \div k0)) >= 1600 * D2 * k0 * k0

\* the scales a frame of the transition can show
FrameScales(tr, dim) ==
    LET lo == Min(tr.from.k, tr.target.k)
        hi == Max(tr.from.k, tr.target.k)
        c0 == CentreOffset(tr.from, dim)
    IN  {tk \in 1..MaxZoom :
            \/ lo <= tk /\ tk <= hi
            \/ /\ tr.kind = "transform"
               /\ tk < lo
               /\ OnZoomOutArc(tk, tr.from.k, c0[1] * c0[1] + c0[2] * c0[2])}

\* the transforms a frame can show: a scale of the path about the view
\* centre, the centre still at the start view's or already at the target's
Frames(tr, dim) ==
    {ScaleAbout(tr.from, ViewCentre(dim), tk) : tk \in FrameScales(tr, dim)}
    \cup (IF tr.kind = "transform"
          THEN {ScaleAbout(tr.target, ViewCentre(dim), tk) : tk \in FrameScales(tr, dim)}
          ELSE {})

\* handleZoom: the listener of the zoom behaviour the event comes from
handleZoom(t, stale) ==
    /\ transform' = t
    /\ zoomG' = IF stale THEN zoomG ELSE Attr(t)
    /\ zoomLevel' = t.k

zoomUnchanged == <<chart, mounted, hostCrashed, loaderVars, error, clientWidth,
                   dimensions, sceneVars, dragVars, hoverVars,
                   drawnVars, styleVars>>

\* .transition().duration(300).call(zoomBehaviorRef.current.scaleTo, newZoomLevel)
ScaleToTransition(newZoomLevel) ==
    [active |-> TRUE, kind |-> "scaleTo", from |-> transform,
     target |-> ScaleAbout(transform, ViewCentre(dimensions), Clamp(newZoomLevel)),
     stale |-> FALSE, changed |-> FALSE]

\* the log after a zoom-in press: it continues a run of zoom-in presses, or
\* starts one at this press
PressedIn ==
    IF presses.ins \in 1..(MaxPresses - 1) /\ presses.outs = 0
    THEN [presses EXCEPT !.ins = @ + 1, !.framed = FALSE,
                         !.interrupted = @ \/ presses.framed]
    ELSE [NoPresses EXCEPT !.base = zoomLevel, !.ins = 1]

\* the log after a zoom-out press: it follows a single zoom-in press, or
\* ends the run
PressedOut ==
    IF presses.ins = 1 /\ presses.outs = 0
    THEN [presses EXCEPT !.outs = 1, !.framed = FALSE,
                         !.interrupted = @ \/ presses.framed]
    ELSE NoPresses

handleZoomIn ==
    /\ Displayed
    /\ zoomBehaviorRef
    /\ LET newZoomLevel == Min(zoomLevel + ZoomStep, MaxZoom)
       IN  /\ zoomLevel' = newZoomLevel
           /\ transition' = ScaleToTransition(newZoomLevel)
    /\ presses' = PressedIn
    /\ UNCHANGED <<transform, zoomG, zoomBehaviorRef>>
    /\ UNCHANGED zoomUnchanged

handleZoomOut ==
    /\ Displayed
    /\ zoomBehaviorRef
    /\ LET newZoomLevel == Max(zoomLevel - ZoomStep, MinZoom)
       IN  /\ zoomLevel' = newZoomLevel
           /\ transition' = ScaleToTransition(newZoomLevel)
    /\ presses' = PressedOut
    /\ UNCHANGED <<transform, zoomG, zoomBehaviorRef>>
    /\ UNCHANGED zoomUnchanged

\* a reset of the scale that keeps the translation
handleZoomResetScaleOnly ==
    /\ Displayed
    /\ zoomBehaviorRef
    /\ zoomLevel' = 10
    /\ transition' = [active |-> TRUE, kind |-> "transform", from |-> transform,
                      target |-> Transform(10, transform.x, transform.y),
                      stale |-> FALSE, changed |-> FALSE]
    /\ presses' = NoPresses
    /\ UNCHANGED <<transform, zoomG, zoomBehaviorRef>>
    /\ UNCHANGED zoomUnchanged

handleZoomReset ==
    /\ Displayed
    /\ zoomBehaviorRef
    /\ zoomLevel' = 10
    /\ transition' = [active |-> TRUE, kind |-> "transform", from |-> transform,
                      target |-> zoomIdentity, stale |-> FALSE, changed |-> FALSE]
    /\ presses' = NoPresses
    /\ UNCHANGED <<transform, zoomG, zoomBehaviorRef>>
    /\ UNCHANGED zoomUnchanged

\* a frame of the running transition before its end
TransitionFrame(t) ==
    /\ transition.active
    /\ t \in Frames(transition, dimensions)
    /\ handleZoom(t, transition.stale)
    /\ presses' = IF presses.ins > 0 THEN [presses EXCEPT !.framed = TRUE] ELSE presses
    /\ UNCHANGED <<zoomBehaviorRef, transition>>
    /\ UNCHANGED zoomUnchanged

\* its last frame shows the target itself
TransitionEnd ==
    /\ transition.active
    /\ handleZoom(transition.target, transition.stale)
    /\ transition' = [transition EXCEPT !.active = FALSE,
                                        !.from = transition.target,
                                        !.stale = FALSE,
                                        !.changed = (transition.from # transition.target)]
    /\ presses' = [presses EXCEPT !.framed = FALSE]
    /\ UNCHANGED zoomBehaviorRef
    /\ UNCHANGED zoomUnchanged

\* a wheel event over the view centre asking for scale tk: the zoom
\* behaviour clamps it, interrupts the transition and emits the zoom event
Wheel(tk) ==
    /\ Displayed
    /\ scene = "drawn"
    /\ zoomBehaviorRef
    /\ Clamp(tk) # transform.k
    /\ handleZoom(ScaleAbout(transform, ViewCentre(dimensions), Clamp(tk)), FALSE)
    /\ transition' = NoTransition
    /\ presses' = NoPresses
    /\ UNCHANGED zoomBehaviorRef
    /\ UNCHANGED zoomUnchanged

\* the background is dragged so that the world moves by (dx, dy) view widths
Pan(dx, dy) ==
    /\ Displayed
    /\ scene = "drawn"
    /\ zoomBehaviorRef
    /\ LET c == CentreOffset(transform, dimensions)
           w == ViewSize(dimensions)
       IN  /\ c[1] - dx \in 0..MaxPan
           /\ c[2] - dy \in 0..MaxPan
           /\ handleZoom(Transform(transform.k,
                                   transform.x + (dx * w * transform.k) \div 10,
                                   transform.y + (dy * w * transform.k) \div 10), FALSE)
    /\ transition' = NoTransition
    /\ presses' = NoPresses
    /\ UNCHANGED zoomBehaviorRef
    /\ UNCHANGED zoomUnchanged

-----------------------------------------------------------------------------
(* Dragging a node *)

dragUnchanged == <<chart, mounted, hostCrashed, loaderVars, error, clientWidth,
                   dimensions, constructed, scene, current, zoomVars, hoverVars,
                   drawnVars, styleVars>>

\* on('start'): event.active counts the gestures of this drag behaviour
\* that were in progress before this one
DragStart(p, n) ==
    /\ Displayed
    /\ scene = "drawn"
    /\ current # 0
    /\ ~gestures[p].active
    /\ n \in DOMAIN engines[current].nodes
    /\ LET e == engines[current]
           active == Cardinality(GesturesOn(gestures, current))
           holders == {q \in GesturesOn(gestures, current) : gestures[q].subject = n}
           e1 == IF active = 0
                 THEN [e EXCEPT !.alphaTarget = DragAlphaTarget, !.running = TRUE]
                 ELSE e
       IN  /\ engines' = [engines EXCEPT ![current] =
                            [e1 EXCEPT !.nodes[n].pinned = TRUE,
                                       !.nodes[n].fx = e.nodes[n].x,
                                       !.nodes[n].fy = e.nodes[n].y]]
           /\ gestures' =
                [q \in Pointers |->
                    IF q = p
                    THEN [NoGesture EXCEPT !.active = TRUE, !.engine = current,
                                           !.subject = n, !.overlapped = (active > 0),
                                           !.x0 = e.nodes[n].x, !.y0 = e.nodes[n].y,
                                           !.shared = (holders # {})]
                    ELSE IF gestures[q].active /\ gestures[q].engine = current
                         THEN [gestures[q] EXCEPT !.overlapped = TRUE,
                                                  !.shared = @ \/ (q \in holders)]
                         ELSE gestures[q]]
    /\ released' = NoRelease
    /\ UNCHANGED dragUnchanged

\* on('drag'): the pointer has moved and the drag event is at pt (event.x,
\* event.y: the pointer's position in the scene, shifted by the offset at
\* which the subject was grabbed)
DragMove(p, pt) ==
    /\ gestures[p].active
    /\ LET s == gestures[p].engine
           n == gestures[p].subject
       IN  engines' = [engines EXCEPT ![s].nodes[n].pinned = TRUE,
                                      ![s].nodes[n].fx = pt[1],
                                      ![s].nodes[n].fy = pt[2]]
    /\ gestures' = [gestures EXCEPT ![p].moved = TRUE, ![p].px = pt[1], ![p].py = pt[2]]
    /\ released' = NoRelease
    /\ UNCHANGED dragUnchanged

\* an end listener that cools the simulation but leaves the subject pinned
DragEndKeepsPin(p) ==
    /\ gestures[p].active
    /\ LET s == gestures[p].engine
           n == gestures[p].subject
           e == engines[s]
           active == Cardinality(GesturesOn(gestures, s) \ {p})
           e2 == IF active = 0 THEN [e EXCEPT !.alphaTarget = 0] ELSE e
           ended == [gestures EXCEPT ![p] = NoGesture]
       IN  /\ gestures' = ended
           /\ released' = [ended |-> TRUE, moved |-> gestures[p].moved,
                           overlapped |-> gestures[p].overlapped,
                           ticked |-> gestures[p].ticked,
                           restored |-> /\ e2.nodes[n].x = gestures[p].x0
                                        /\ e2.nodes[n].y = gestures[p].y0,
                           pinned |-> e2.nodes[n].pinned,
                           alphaTarget |-> e2.alphaTarget]
           /\ engines' = Collect([engines EXCEPT ![s] = e2], current, ended)
    /\ UNCHANGED dragUnchanged

\* an end listener that cools the simulation whatever event.active says
DragEndAlwaysCools(p) ==
    /\ gestures[p].active
    /\ LET s == gestures[p].engine
           n == gestures[p].subject
           e == engines[s]
           e2 == [e EXCEPT !.alphaTarget = 0,
                           !.nodes[n].pinned = FALSE,
                           !.nodes[n].fx = 0,
                           !.nodes[n].fy = 0]
           ended == [gestures EXCEPT ![p] = NoGesture]
       IN  /\ gestures' = ended
           /\ released' = [ended |-> TRUE, moved |-> gestures[p].moved,
                           overlapped |-> gestures[p].overlapped,
                           ticked |-> gestures[p].ticked,
                           restored |-> /\ e2.nodes[n].x = gestures[p].x0
                                        /\ e2.nodes[n].y = gestures[p].y0,
                           pinned |-> e2.nodes[n].pinned,
                           alphaTarget |-> e2.alphaTarget]
           /\ engines' = Collect([engines EXCEPT ![s] = e2], current, ended)
    /\ UNCHANGED dragUnchanged

\* on('end'): event.active counts the gestures still in progress
DragEnd(p) ==
    /\ gestures[p].active
    /\ LET s == gestures[p].engine
           n == gestures[p].subject
           e == engines[s]
           active == Cardinality(GesturesOn(gestures, s) \ {p})
           e1 == IF active = 0 THEN [e EXCEPT !.alphaTarget = 0] ELSE e
           e2 == [e1 EXCEPT !.nodes[n].pinned = FALSE,
                            !.nodes[n].fx = 0,
                            !.nodes[n].fy = 0]
           ended == [gestures EXCEPT ![p] = NoGesture]
       IN  /\ gestures' = ended
           /\ released' = [ended |-> TRUE, moved |-> gestures[p].moved,
                           overlapped |-> gestures[p].overlapped,
                           ticked |-> gestures[p].ticked,
                           restored |-> /\ e2.nodes[n].x = gestures[p].x0
                                        /\ e2.nodes[n].y = gestures[p].y0,
                           pinned |-> e2.nodes[n].pinned,
                           alphaTarget |-> e2.alphaTarget]
           /\ engines' = Collect([engines EXCEPT ![s] = e2], current, ended)
    /\ UNCHANGED dragUnchanged

-----------------------------------------------------------------------------
(* Hovering a node *)

hoverUnchanged == <<chart, mounted, hostCrashed, loaderVars, error, clientWidth,
                    dimensions, sceneVars, dragVars, zoomVars, drawnVars>>

\* a forEach that follows the links in one direction only
RECURSIVE ConnectTargets(_, _, _)
ConnectTargets(links, d, acc) ==
    IF links = <<>>
    THEN acc
    ELSE LET link == Head(links)
         IN  ConnectTargets(Tail(links), d,
                            IF link.source = d THEN acc \cup {link.target} ELSE acc)

\* the forEach over simulationLinks that fills connectedNodeIds
RECURSIVE Connect(_, _, _)
Connect(links, d, acc) ==
    IF links = <<>>
    THEN acc
    ELSE LET link == Head(links)
         IN  Connect(Tail(links), d,
                     IF link.source = d \/ link.target = d
                     THEN acc \cup {link.source, link.target}
                     ELSE acc)

\* links.filter(link => sourceId === d.id || targetId === d.id)
Incident(link, d) == link.source = d \/ link.target = d

\* nodes.style('opacity', 0.2), then the styles of the connected nodes
HighlightNodes(styles, connected) ==
    [id \in DOMAIN styles |->
        IF id \in connected
        THEN [opacity |-> FullOpacity, stroke |-> "#fff", width |-> HoverStrokeWidth]
        ELSE [styles[id] EXCEPT !.opacity = DimNodeOpacity]]

\* a highlight of every link whose two ends are highlighted nodes
HighlightLinksBetween(styles, links, d) ==
    LET connected == Connect(links, d, {d})
    IN  [i \in DOMAIN styles |->
            IF links[i].source \in connected /\ links[i].target \in connected
            THEN [styles[i] EXCEPT !.opacity = FullOpacity, !.stroke = "#555",
                                   !.width.plus = 1]
            ELSE [styles[i] EXCEPT !.opacity = DimLinkOpacity]]

\* links.style('opacity', 0.1), then the styles of the links at d
HighlightLinks(styles, links, d) ==
    [i \in DOMAIN styles |->
        IF Incident(links[i], d)
        THEN [styles[i] EXCEPT !.opacity = FullOpacity, !.stroke = "#555",
                               !.width.plus = 1]
        ELSE [styles[i] EXCEPT !.opacity = DimLinkOpacity]]

\* tooltip.style('opacity', 1)...html(...): a node without an entry in
\* nodeConnectionCounts shows 0, which is what its entry holds here
Tooltip(d) ==
    [shown |-> TRUE, id |-> d, group |-> GroupOf(data, d),
     connections |-> nodeConnectionCounts[d]]

\* a mouseover that also reheats the simulation
MouseOverReheating(d) ==
    /\ Displayed
    /\ scene = "drawn"
    /\ current # 0
    /\ d \in DOMAIN engines[current].nodes
    /\ hoverD' = d
    /\ pointerOver' = d
    /\ connectedNodeIds' = Connect(engines[current].links, d, {d})
    /\ nodeStyle' = HighlightNodes(nodeStyle, Connect(engines[current].links, d, {d}))
    /\ linkStyle' = HighlightLinks(linkStyle, engines[current].links, d)
    /\ tooltip' = Tooltip(d)
    /\ engines' = [engines EXCEPT ![current].alpha = AlphaSteps,
                                  ![current].running = TRUE]
    /\ UNCHANGED <<chart, mounted, hostCrashed, loaderVars, error, clientWidth,
                   dimensions, constructed, scene, current, dragVars, zoomVars,
                   drawnVars>>

MouseOver(d) ==
    /\ Displayed
    /\ scene = "drawn"
    /\ current # 0
    /\ d \in DOMAIN engines[current].nodes
    /\ hoverD' = d
    /\ pointerOver' = d
    /\ connectedNodeIds' = Connect(engines[current].links, d, {d})
    /\ nodeStyle' = HighlightNodes(nodeStyle, Connect(engines[current].links, d, {d}))
    /\ linkStyle' = HighlightLinks(linkStyle, engines[current].links, d)
    /\ tooltip' = Tooltip(d)
    /\ UNCHANGED hoverUnchanged

MouseOut ==
    /\ Displayed
    /\ scene = "drawn"
    /\ current # 0
    /\ hoverD' = ""
    /\ pointerOver' = ""
    /\ connectedNodeIds' = {}
    /\ nodeStyle' = [id \in DOMAIN nodeStyle |-> NodeDefault]
    /\ linkStyle' = [i \in DOMAIN linkStyle |->
                        [linkStyle[i] EXCEPT !.opacity = LinkOpacity, !.stroke = "#999",
                                             !.width.plus = 0]]
    /\ tooltip' = [tooltip EXCEPT !.shown = FALSE]
    /\ UNCHANGED hoverUnchanged

-----------------------------------------------------------------------------
(* Inputs *)

\* the dataset of the specification's end-to-end example
ExampleNodes == <<Node("a", 1), Node("b", 1), Node("x", 2)>>
ExampleJson == Json(ExampleNodes, <<Link("a", "b", 4), Link("a", "missing", 1)>>)

\* three nodes linked pairwise
TriangleJson ==
    Json(ExampleNodes, <<Link("a", "b", 1), Link("a", "x", 1), Link("b", "x", 1)>>)

\* two linked nodes
PairJson == Json(<<Node("a", 1), Node("b", 2)>>, <<Link("a", "b", 1)>>)

Widths == {0, 401, 800, 1000}

\* a point is <<x, y, jx, jy>>: where the forces leave the node, and the
\* random offsets its seed position was given
Still == {<<400, 300, 0, 0>>}
Moving == {<<300, 250, 0, 0>>, <<500, 350, 0, 0>>}

\* the extremes of (Math.random() - 0.5) * 100, which lies in [-50, 50)
Seeded == {<<300, 250, -50, -50>>, <<500, 350, 49, 49>>}

\* scales a wheel event may ask for, inside and outside the extent
WheelScales == {3, 5, 10, 35}

\* the scales at which a running transition is observed before its end
SampledScales == {4, 7, 11, 20}

RECURSIVE SeqsUpTo(_, _)
SeqsUpTo(S, n) ==
    IF n = 0 THEN {<<>>}
    ELSE SeqsUpTo(S, n - 1) \cup {Append(q, e) : q \in SeqsUpTo(S, n - 1), e \in S}

EndPoints == {"a", "b", "x", "missing"}
Payloads ==
    {Json(ns, ls) : ns \in {ExampleNodes, <<Node("a", 1), Node("b", 2)>>},
                    ls \in SeqsUpTo({Link(s, t, 1) : s \in EndPoints, t \in EndPoints},
                                    MaxLinks)}

InitWith(C, W) ==
    /\ chart \in C
    /\ clientWidth \in W
    /\ mounted = TRUE
    /\ hostCrashed = FALSE
    /\ fetchPending = TRUE
    /\ fetchCount = 1
    /\ response = NoResponse
    /\ warned = <<>>
    /\ data = NullData
    /\ isLoading = TRUE
    /\ error = "null"
    /\ dimensions = InitialDimensions
    /\ constructed = FALSE
    /\ scene = "empty"
    /\ current = 0
    /\ engines = [s \in Slots |-> NoEngine]
    /\ gestures = [p \in Pointers |-> NoGesture]
    /\ released = NoRelease
    /\ zoomLevel = 10
    /\ transform = zoomIdentity
    /\ zoomG = NoAttr
    /\ zoomBehaviorRef = FALSE
    /\ transition = NoTransition
    /\ hoverD = ""
    /\ pointerOver = ""
    /\ connectedNodeIds = {}
    /\ simulationNodes = NoNodes
    /\ fills = NoFills
    /\ legend = NoLegend
    /\ nodeConnectionCounts = NoFills
    /\ nodeStyle = NoStyles
    /\ linkStyle = <<>>
    /\ tooltip = NoTooltip
    /\ presses = NoPresses

-----------------------------------------------------------------------------
(* Spec: the life cycle of the three components *)

Init == InitWith(Charts, Widths)

Fetched(R, T, points) ==
    \E resp \in R, throwAt \in T :
        \E layout \in Layouts(NodeIdsOf(resp.nodes), points) :
            FetchResolve(resp, throwAt, layout)

Resized(W, T, points) ==
    \E cw \in W, throwAt \in T :
        \E layout \in Layouts(NodeIdsOf(data.nodes), points) :
            HandleResize(cw, throwAt, layout)

Ticked(points) ==
    \E s \in Slots :
        \E layout \in Layouts(DOMAIN engines[s].nodes, points) :
            SimTick(s, layout)

Mounted(C) == \E c \in C : Mount(c)

Next ==
    \/ Fetched(TransportFailures \cup ShapeFailures \cup {ExampleJson}, ThrowPoints, Still)
    \/ Resized(Widths, ThrowPoints, Still)
    \/ Ticked(Still)
    \/ Unmount
    \/ Mounted(Charts)

Spec == Init /\ [][Next]_vars

-----------------------------------------------------------------------------
(* SpecLoad: the network graph's loader over enumerated payloads, and hover *)

LoadInit == InitWith({"network"}, {800})

Hovered == \E d \in EndPoints : MouseOver(d)

LoadNext ==
    \/ Fetched(Payloads \cup {TriangleJson} \cup TransportFailures \cup ShapeFailures,
               {"none"}, Still)
    \/ Hovered
    \/ MouseOut

SpecLoad == LoadInit /\ [][LoadNext]_vars

-----------------------------------------------------------------------------
(* SpecZoom: the network graph's zoom controls, pointer zoom and pan *)

\* the container has no width until the first resize
ZoomInit == InitWith({"network"}, {0})

Framed ==
    \E t \in {f \in Frames(transition, dimensions) : f.k \in SampledScales} :
        TransitionFrame(t)
Wheeled == \E tk \in WheelScales : Wheel(tk)
Panned == \E d \in {<<1, 0>>, <<-1, 0>>} : Pan(d[1], d[2])

ZoomNext ==
    \/ Fetched(TransportFailures \cup ShapeFailures \cup {PairJson}, {"none"}, Still)
    \/ Resized({800}, {"none"}, Still)
    \/ handleZoomIn
    \/ handleZoomOut
    \/ handleZoomReset
    \/ Framed
    \/ TransitionEnd
    \/ Wheeled
    \/ Panned
    \/ Unmount
    \/ Mounted({"network"})

SpecZoom == ZoomInit /\ [][ZoomNext]_vars

-----------------------------------------------------------------------------
(* SpecDrag: dragging the nodes of the network graph while it simulates *)

DragInit == InitWith({"network"}, {800})

DragStarted == \E p \in Pointers, n \in {"a", "b"} : DragStart(p, n)
DragMoved == \E p \in Pointers, pt \in Moving : DragMove(p, pt)
DragEnded == \E p \in Pointers : DragEnd(p)

DragNext ==
    \/ Fetched({PairJson}, {"none"}, Moving)
    \/ Ticked(Moving)
    \/ DragStarted
    \/ DragMoved
    \/ DragEnded

SpecDrag == DragInit /\ [][DragNext]_vars

-----------------------------------------------------------------------------
(* SpecRebuild: resizing the window while the network graph simulates and *)
(* its nodes are dragged                                                  *)

RebuildInit == InitWith({"network"}, {800})

\* every node gets the same extreme of the random offsets
RebuildResized == \E pt \in Seeded : Resized({401, 1000}, {"none"}, {pt})

\* the mouse goes down on node a
RebuildDragStarted == DragStart(1, "a")

RebuildNext ==
    \/ \E pt \in Seeded : Fetched({PairJson}, {"none"}, {pt})
    \/ RebuildResized
    \/ Ticked(Still)
    \/ RebuildDragStarted
    \/ DragEnded

SpecRebuild == RebuildInit /\ [][RebuildNext]_vars

-----------------------------------------------------------------------------
(* SpecInteract: hover, zoom, pan and drag on one drawn network graph *)

InteractInit == InitWith({"network"}, {800})

\* the buttons are pressed only around scale 1.0, the wheel goes straight to
\* the largest scale, and the mouse is the only pointer
InteractHovered == MouseOver("a")
InteractZoomIn == zoomLevel \in {10 - ZoomStep, 10} /\ handleZoomIn
InteractZoomOut == zoomLevel \in {10, 10 + ZoomStep} /\ handleZoomOut
InteractWheeled == Wheel(MaxZoom)
InteractDragStarted == DragStart(1, "b")
InteractDragMoved == \E pt \in {<<300, 250, 0, 0>>} : DragMove(1, pt)

\* the handlers of hover, zoom and pan, and those of drag
HoverOrZoom ==
    \/ InteractHovered
    \/ MouseOut
    \/ InteractZoomIn
    \/ InteractZoomOut
    \/ handleZoomReset
    \/ Framed
    \/ TransitionEnd
    \/ InteractWheeled
    \/ Panned

Drag ==
    \/ InteractDragStarted
    \/ InteractDragMoved
    \/ DragEnd(1)

InteractNext ==
    \/ Fetched({PairJson}, {"none"}, Still)
    \/ Ticked(Still)
    \/ HoverOrZoom
    \/ Drag

SpecInteract == InteractInit /\ [][InteractNext]_vars

-----------------------------------------------------------------------------
(* SpecHover: resizing the window while a node of the network graph is *)
(* hovered                                                              *)

HoverInit == InitWith({"network"}, {800})

HoverHovered == \E d \in {"a", "b"} : MouseOver(d)

HoverNext ==
    \/ Fetched({PairJson}, {"none"}, Still)
    \/ Resized({401, 1000}, {"none"}, Still)
    \/ Ticked(Still)
    \/ HoverHovered
    \/ MouseOut

SpecHover == HoverInit /\ [][HoverNext]_vars

-----------------------------------------------------------------------------
(* SpecPalette: the network graph's colours and legend over node lists with *)
(* up to MaxNodes nodes and as many groups                                  *)

\* n nodes whose groups run through 0..m-1 in steps of `step`
GroupedNodes(n, m, step) ==
    [i \in 1..n |-> Node(ToString(i), ((i - 1) * step) % m)]

PalettePayloads ==
    {Json(GroupedNodes(n, m, step), <<>>) :
        n \in 0..MaxNodes, m \in 1..MaxNodes, step \in {1, 5}}

PaletteInit == InitWith({"network"}, {800})

PaletteNext ==
    \/ Fetched(PalettePayloads, {"none"}, Still)
    \/ Resized({1000}, {"none"}, Still)

SpecPalette == PaletteInit /\ [][PaletteNext]_vars

-----------------------------------------------------------------------------
(* Properties *)

NetworkLoadFailures == TransportFailures \cup ShapeFailures

\* the links of a raw list whose endpoints are both in ids, in their order
RECURSIVE KeepValid(_, _)
KeepValid(links, ids) ==
    IF links = <<>>
    THEN <<>>
    ELSE IF Head(links).source \in ids /\ Head(links).target \in ids
         THEN <<Head(links)>> \o KeepValid(Tail(links), ids)
         ELSE KeepValid(Tail(links), ids)

FailingLinks(links, ids) ==
    {i \in DOMAIN links : ~(links[i].source \in ids /\ links[i].target \in ids)}

\* C1: whenever the network graph's loader has published a dataset, its
\* links are exactly the raw payload's links with both endpoints among the
\* node ids, in their original order; as many links were dropped as fail
\* that test in the raw payload; the nodes are the payload's nodes; and the
\* links the simulation lays out are the published ones.
LoaderKeepsValidLinks ==
    (response.kind = "ok" /\ ~data.null) =>
        LET ids == NodeIdsOf(response.nodes)
        IN  /\ data.nodes = response.nodes
            /\ data.links = KeepValid(response.links, ids)
            /\ Len(response.links) - Len(data.links)
                   = Cardinality(FailingLinks(response.links, ids))
            /\ \A i \in DOMAIN data.links :
                   data.links[i].source \in ids /\ data.links[i].target \in ids
            /\ current # 0 => engines[current].links = data.links

\* a payload whose first link dangles and whose second is kept
LoaderDroppedALink ==
    /\ response.kind = "ok"
    /\ ~data.null
    /\ Len(response.links) = 2
    /\ FailingLinks(response.links, NodeIdsOf(response.nodes)) = {1}
    /\ data.links = <<response.links[2]>>
    /\ scene = "drawn"

\* C2: in every reachable state the zoomLevel state and the scale of the
\* view transform are both within [0.5, 3.0].
ZoomWithinExtent ==
    /\ zoomLevel \in MinZoom..MaxZoom
    /\ transform.k \in MinZoom..MaxZoom

IdentityView == transform = zoomIdentity /\ zoomLevel = 10

CompletedReset == ~transition.active /\ transition.kind = "transform"

\* C3: when the transition started by zoom-reset has run to its end the view
\* transform is the identity (scale 1, translate (0, 0)) and zoomLevel is 1,
\* whatever the view was before; and a zoom-reset invoked in that state
\* leaves the transform and zoomLevel as they are, frame by frame and at its
\* end.
ResetYieldsIdentity ==
    /\ [](CompletedReset => IdentityView)
    /\ [][(IdentityView /\ transition'.kind = "transform"
             /\ transition'.from = zoomIdentity /\ mounted')
          => IdentityView']_vars

\* a reset has completed that started from another view
ResetFromElsewhereCompleted ==
    /\ CompletedReset
    /\ transition.changed
    /\ IdentityView
    /\ zoomG = Attr(zoomIdentity)

\* the nodes one link away from d in a link list
Neighbours(links, d) ==
    {n \in {links[i].source : i \in DOMAIN links} \cup {links[i].target : i \in DOMAIN links} :
        \E i \in DOMAIN links :
            \/ links[i].source = d /\ links[i].target = n
            \/ links[i].target = d /\ links[i].source = n}

\* C4: while a node d is hovered the highlight set is exactly d together
\* with the nodes that share a link of the published dataset with d.
HighlightIsNeighbourhood ==
    hoverD # "" => connectedNodeIds = {hoverD} \cup Neighbours(data.links, hoverD)

\* "a" is hovered in the chain a - b - x: b is highlighted, x is not
HoverInAChain ==
    /\ hoverD = "a"
    /\ connectedNodeIds = {"a", "b"}
    /\ "x" \in Neighbours(data.links, "b")

DragLeftNoTrace ==
    /\ released.restored
    /\ ~released.pinned
    /\ released.alphaTarget = 0

\* C5 (as stated): a drag gesture that ends without a pointer-move leaves
\* its node where it was at pointer-down, unpinned, and the simulation's
\* alphaTarget at 0.
StillDragLeavesNoTrace ==
    (released.ended /\ ~released.moved) => DragLeftNoTrace

\* C5 (amended): a drag gesture that ends without a pointer-move, and during
\* which no other drag gesture of the scene was in progress, leaves its node
\* where it was at pointer-down, unpinned, and the simulation's alphaTarget
\* at 0, whatever number of ticks happened in between.
LoneStillDragLeavesNoTrace ==
    (released.ended /\ ~released.moved /\ ~released.overlapped) => DragLeftNoTrace

\* such a gesture has ended, the simulation having ticked during it
LoneStillDragEnded ==
    /\ released.ended
    /\ ~released.moved
    /\ ~released.overlapped
    /\ released.ticked
    /\ DragLeftNoTrace

\* C6: at most one simulation of the network graph has a running timer, and
\* none has once the component is unmounted.
AtMostOneEngineActive ==
    /\ Cardinality(Running) <= 1
    /\ ~mounted => Running = {}

\* C7: for the treemap and the network graph the working height is
\* min(0.75 * width, 600) in every state, the initial one included, and
\* while the chart is displayed the working width is the initial 800 or the
\* container's client width, 800 standing in for a client width of 0.
HeightFollowsWidth ==
    chart \in {"network", "treemap"} =>
        /\ dimensions.height = Min(3 * dimensions.width, 4 * MaxHeight)
        /\ Displayed =>
              \/ dimensions = InitialDimensions
              \/ dimensions.width = (IF clientWidth = 0 THEN DefaultWidth ELSE clientWidth)

\* a resize has taken effect whose height comes from the aspect ratio
ResizedBelowCap ==
    /\ chart \in {"network", "treemap"}
    /\ Displayed
    /\ dimensions.width = clientWidth
    /\ dimensions.height = 3 * clientWidth
    /\ dimensions.height < 4 * MaxHeight

\* C8: the network graph's visualization exists only when the fetch has
\* resolved with a document and the published dataset is that document with
\* every link validated; after a transport failure, a non-OK response or a
\* malformed payload the dataset is null, the load error is set and nothing
\* has been constructed.
ConstructedOnlyFromValidData ==
    chart = "network" =>
        /\ (constructed \/ scene = "drawn" \/ current # 0) =>
              /\ response.kind = "ok"
              /\ ~fetchPending
              /\ ~isLoading
              /\ ~data.null
              /\ data = Dataset(response.nodes,
                                KeepValid(response.links, NodeIdsOf(response.nodes)))
        /\ response \in NetworkLoadFailures =>
              /\ data.null
              /\ error = LoadErrorMessage("network")
              /\ ~constructed
              /\ scene = "empty"
              /\ current = 0

\* the graph has been built from a payload that lost a link in validation
BuiltFromFilteredPayload ==
    /\ chart = "network"
    /\ constructed
    /\ scene = "drawn"
    /\ current # 0
    /\ Len(warned) > 0
    /\ Len(data.links) < Len(response.links)

InLoadError ==
    /\ error = LoadErrorMessage(chart)
    /\ ~Displayed
    /\ data.null
    /\ ~fetchPending
    /\ fetchCount = 1
    /\ ~constructed
    /\ scene = "empty"
    /\ current = 0
    /\ ~zoomBehaviorRef

\* C9: every step that leaves the network graph mounted with a failed load
\* leaves it in the error state: the failed fetch enters that state and no
\* later resize, zoom button or pointer event leaves it, issues another
\* fetch, clears the error or builds the visualization.
LoadErrorIsTerminal ==
    [][(mounted' /\ response' \in NetworkLoadFailures) => InLoadError']_vars

\* the container has been resized after the load failed
ResizedInLoadError ==
    /\ mounted
    /\ response \in NetworkLoadFailures
    /\ InLoadError
    /\ clientWidth = DefaultWidth

\* C10: an exception thrown while a chart is being constructed never reaches
\* the host shell, and leaves the component showing its error state.
ConstructionErrorsCaught ==
    /\ ~hostCrashed
    /\ (mounted /\ constructed /\ scene = "empty") => error # "null"

\* the position in the node list at which group g is first seen
FirstSeen(nodes, g) ==
    CHOOSE k \in DOMAIN nodes :
        nodes[k].group = g /\ \A l \in 1..(k - 1) : nodes[l].group # g

\* C11: in a drawn network graph the legend has one row per distinct group
\* of the node list, in the order in which the groups are first seen; the
\* row at 0-based position i has palette entry i mod 10; two rows share a
\* colour exactly when their positions are congruent mod 10; min(number of
\* groups, 10) colours are in use; and every node has the colour of its
\* group's row.
PaletteFollowsFirstSeenOrder ==
    (chart = "network" /\ scene = "drawn") =>
        LET rows == legend.rows
            n == Len(rows)
        IN  /\ {rows[i].group : i \in 1..n} = {data.nodes[k].group : k \in DOMAIN data.nodes}
            /\ \A i, j \in 1..n :
                  i < j => FirstSeen(data.nodes, rows[i].group)
                              < FirstSeen(data.nodes, rows[j].group)
            /\ \A i \in 1..n : rows[i].fill = (i - 1) % PaletteSize
            /\ \A i, j \in 1..n :
                  (rows[i].fill = rows[j].fill) <=> ((i - j) % PaletteSize = 0)
            /\ Cardinality({rows[i].fill : i \in 1..n}) = Min(n, PaletteSize)
            /\ DOMAIN fills = NodeIdsOf(data.nodes)
            /\ \A k \in DOMAIN data.nodes :
                  \E i \in 1..n :
                      /\ rows[i].group = data.nodes[k].group
                      /\ fills[data.nodes[k].id] = rows[i].fill

\* more groups than palette entries, first seen out of numerical order: the
\* eleventh row repeats the first row's colour
PaletteWrapsAround ==
    /\ scene = "drawn"
    /\ Len(legend.rows) > PaletteSize
    /\ legend.rows[PaletteSize + 1].fill = legend.rows[1].fill
    /\ legend.rows[3].group > legend.rows[4].group

\* a run of zoom-in presses has come to rest
ZoomInRunAtRest == presses.ins > 0 /\ presses.outs = 0 /\ ~transition.active

\* a zoom-in press followed by a zoom-out press has come to rest
InThenOutAtRest == presses.ins = 1 /\ presses.outs = 1 /\ ~transition.active

EndsAt(k) == zoomLevel = k /\ transform.k = k

\* each press moves the scale by one step, clamped at that step
StepIsClamped ==
    /\ handleZoomIn =>
          /\ zoomLevel' = Min(zoomLevel + ZoomStep, MaxZoom)
          /\ transition'.target.k = zoomLevel'
    /\ handleZoomOut =>
          /\ zoomLevel' = Max(zoomLevel - ZoomStep, MinZoom)
          /\ transition'.target.k = zoomLevel'

\* C12: N consecutive zoom-in presses from scale s end at
\* min(s + 0.2 N, 3.0), each press moving the scale by one clamped step.
ConsecutiveZoomInsEndAtSum ==
    ZoomInRunAtRest => EndsAt(Min(presses.base + ZoomStep * presses.ins, MaxZoom))

\* what does hold: a zoom-in press at zoomLevel s targets min(s + 0.2, 3.0)
\* and a zoom-out press max(s - 0.2, 0.5); N consecutive zoom-in presses
\* from s, none issued after a frame of the zoom transition still under way,
\* end at min(s + 0.2 N, 3.0); and a zoom-in followed by a zoom-out returns
\* to s only when the zoom-in was not clamped
UninterruptedZoomInsEndAtSum ==
    /\ [][StepIsClamped]_vars
    /\ [](ZoomInRunAtRest /\ ~presses.interrupted =>
              EndsAt(Min(presses.base + ZoomStep * presses.ins, MaxZoom)))
    /\ [](InThenOutAtRest /\ ~presses.interrupted /\ EndsAt(presses.base) =>
              presses.base + ZoomStep <= MaxZoom)

\* two zoom-in presses in a row, the second clamped, have come to rest
TwoZoomInsClampedAtRest ==
    /\ ZoomInRunAtRest
    /\ ~presses.interrupted
    /\ presses.ins = 2
    /\ presses.base + ZoomStep < MaxZoom
    /\ presses.base + ZoomStep * 2 > MaxZoom
    /\ EndsAt(MaxZoom)

\* the drag gestures in progress on node n of simulation s
HoldersOf(s, n) == {p \in GesturesOn(gestures, s) : gestures[p].subject = n}

\* node n of simulation s is pinned where gesture p says: at its position
\* at pointer-down before the first move, at the latest drag event after
PinnedBy(s, n, p) ==
    LET nd == engines[s].nodes[n]
        g == gestures[p]
    IN  /\ nd.pinned
        /\ nd.fx = (IF g.moved THEN g.px ELSE g.x0)
        /\ nd.fy = (IF g.moved THEN g.py ELSE g.y0)

\* C13: a node is pinned exactly while a drag gesture on it is in progress;
\* the pin is then at the node's position at pointer-down until the
\* gesture's first pointer-move and at its latest drag event afterwards.
PinnedIffDragged ==
    \A s \in Slots :
        engines[s].live =>
            \A n \in DOMAIN engines[s].nodes :
                /\ engines[s].nodes[n].pinned <=> (HoldersOf(s, n) # {})
                /\ \A p \in HoldersOf(s, n) : PinnedBy(s, n, p)

\* what does hold: for a node that no two drag gestures have held at once,
\* the pinned position is non-null exactly while a drag gesture on it is in
\* progress; it then equals the node's position at pointer-down until the
\* first pointer-move and the position of the latest drag event afterwards;
\* and every pointer-up sets it back to null
PinnedIffDraggedAlone ==
    /\ \A s \in Slots :
          engines[s].live =>
              \A n \in DOMAIN engines[s].nodes :
                  (\A p \in HoldersOf(s, n) : ~gestures[p].shared) =>
                      /\ engines[s].nodes[n].pinned <=> (HoldersOf(s, n) # {})
                      /\ \A p \in HoldersOf(s, n) : PinnedBy(s, n, p)
    /\ released.ended => ~released.pinned

\* a node follows its pointer while another pointer holds the other node and
\* the simulation ticks
DraggedAloneBesideAnother ==
    \E p, q \in Pointers :
        /\ gestures[p].active /\ gestures[p].moved /\ gestures[p].ticked
        /\ ~gestures[p].shared
        /\ gestures[q].active /\ gestures[q].subject # gestures[p].subject
        /\ PinnedBy(gestures[p].engine, gestures[p].subject, p)
        /\ gestures[p].px # gestures[p].x0

\* C14: a simulation's alphaTarget is 0.3 exactly while at least one drag
\* gesture on its nodes is in progress and 0 otherwise, overlapping gestures
\* of several pointers included; the simulation runs as long as a gesture is
\* in progress, the drag start that finds no other gesture restarts it, and
\* only the end of the last gesture in progress lowers the target to 0.
AlphaTargetRaisedWhileDragged ==
    /\ [](\A s \in Slots :
             engines[s].live =>
                 /\ engines[s].alphaTarget =
                        (IF GesturesOn(gestures, s) # {} THEN DragAlphaTarget ELSE 0)
                 /\ GesturesOn(gestures, s) # {} => engines[s].running)
    /\ [][DragStarted =>
             /\ engines'[current].running
             /\ engines'[current].alphaTarget = DragAlphaTarget]_vars
    /\ [][DragEnded =>
             \A s \in Slots :
                 (engines[s].live /\ engines'[s].live
                     /\ engines'[s].alphaTarget # engines[s].alphaTarget)
                     => /\ GesturesOn(gestures', s) = {}
                        /\ engines'[s].alphaTarget = 0]_vars

\* of two overlapping drags one has just ended: the target stays raised
OneOfTwoDragsEnded ==
    /\ released.ended
    /\ released.overlapped
    /\ \E s \in Slots :
          /\ engines[s].live
          /\ Cardinality(GesturesOn(gestures, s)) = 1
          /\ engines[s].alphaTarget = DragAlphaTarget

\* the nodes of the highlight set are at full opacity with the emphasised
\* stroke, every other node is dimmed
HighlightSetEmphasised ==
    \A id \in DOMAIN nodeStyle :
        IF id \in connectedNodeIds
        THEN nodeStyle[id] = [opacity |-> FullOpacity, stroke |-> "#fff",
                              width |-> HoverStrokeWidth]
        ELSE nodeStyle[id].opacity = DimNodeOpacity

\* C15 as stated: while node d is hovered, the elements at full opacity are
\* exactly the nodes of the highlight set and the links both of whose
\* endpoints belong to it; every other node is at 0.2 and every other link
\* at 0.1.
InducedSubgraphAtFullOpacity ==
    (scene = "drawn" /\ hoverD # "") =>
        /\ HighlightSetEmphasised
        /\ \A i \in DOMAIN linkStyle :
              linkStyle[i].opacity =
                  (IF /\ engines[current].links[i].source \in connectedNodeIds
                      /\ engines[current].links[i].target \in connectedNodeIds
                   THEN FullOpacity ELSE DimLinkOpacity)

\* C15: while node d is hovered, the elements at full opacity are exactly
\* the nodes of the highlight set and the links that have d as an endpoint,
\* the latter with stroke #555 and width sqrt(value) + 1; every other node
\* is at 0.2 and every other link at 0.1.
StarAtFullOpacity ==
    (scene = "drawn" /\ hoverD # "") =>
        /\ HighlightSetEmphasised
        /\ \A i \in DOMAIN linkStyle :
              LET link == engines[current].links[i]
              IN  IF link.source = hoverD \/ link.target = hoverD
                  THEN /\ linkStyle[i].opacity = FullOpacity
                       /\ linkStyle[i].stroke = "#555"
                       /\ linkStyle[i].width = [sqrtOf |-> link.value, plus |-> 1]
                  ELSE linkStyle[i].opacity = DimLinkOpacity

\* a corner of a triangle is hovered: the opposite side joins two nodes of
\* the highlight set and is dimmed
HoverInATriangle ==
    /\ scene = "drawn"
    /\ hoverD # ""
    /\ Cardinality(connectedNodeIds) = 3
    /\ \E i \in DOMAIN linkStyle :
          LET link == engines[current].links[i]
          IN  /\ link.source \in connectedNodeIds \ {hoverD}
              /\ link.target \in connectedNodeIds \ {hoverD, link.source}
              /\ linkStyle[i].opacity = DimLinkOpacity

\* the styles the construction gives the nodes and links of the drawn scene
ConstructedNodeStyle == [id \in DOMAIN nodeStyle |-> NodeDefault]
ConstructedLinkStyle ==
    [i \in DOMAIN linkStyle |-> LinkDefault(engines[current].links[i])]

\* C16: after a pointer-leave every node has opacity 1, stroke #fff and
\* stroke width 1.5, every link has opacity 0.6, stroke #999 and width
\* sqrt(value), the tooltip is hidden, the highlight set is empty, and the
\* styles of the nodes and links are those they had right after
\* construction.
LeaveRestoresConstructedStyles ==
    [][MouseOut =>
          /\ \A id \in DOMAIN nodeStyle' :
                nodeStyle'[id] = [opacity |-> FullOpacity, stroke |-> "#fff",
                                  width |-> NodeStrokeWidth]
          /\ \A i \in DOMAIN linkStyle' :
                /\ linkStyle'[i].opacity = LinkOpacity
                /\ linkStyle'[i].stroke = "#999"
                /\ linkStyle'[i].width = [sqrtOf |-> engines[current].links[i].value,
                                          plus |-> 0]
          /\ ~tooltip'.shown
          /\ connectedNodeIds' = {}
          /\ nodeStyle' = ConstructedNodeStyle
          /\ linkStyle' = ConstructedLinkStyle]_vars

\* the seed list is one fresh node per node of the dataset, at rest,
\* unpinned, within SeedSpread of the centre of dim on each axis (x in half
\* pixels, y in eighths of a pixel)
SeededAround(nodes, d, dim) ==
    /\ Len(nodes) = Len(d.nodes)
    /\ \A i \in DOMAIN nodes :
          /\ nodes[i].id = d.nodes[i].id
          /\ nodes[i].vx = 0 /\ nodes[i].vy = 0
          /\ ~nodes[i].pinned
          /\ nodes[i].x - dim.width \in (-2 * SeedSpread)..(2 * SeedSpread)
          /\ nodes[i].y - dim.height \in (-8 * SeedSpread)..(8 * SeedSpread)

\* C17: every resize event received while the graph is displayed rebuilds
\* the scene from the current dataset at the new dimensions: the drawn
\* scene is a newly built one with default styles, each of its nodes starts
\* with zero velocity, no pin and a seed position within 50 units of the
\* new surface centre on each axis, and its simulation is a new one at full
\* temperature in which no node is pinned, whatever was pinned before.
ResizeRebuildsFromSeeds ==
    [][(RebuildResized /\ Displayed) =>
          /\ scene' = "drawn"
          /\ dimensions' = ResizedDimensions(chart, clientWidth')
          /\ SeededAround(simulationNodes', data, dimensions')
          /\ nodeStyle' = [id \in NodeIdsOf(data.nodes) |-> NodeDefault]
          /\ engines'[current'].live
          /\ engines'[current'].alpha = AlphaSteps
          /\ engines'[current'].alphaTarget = 0
          /\ DOMAIN engines'[current'].nodes = NodeIdsOf(data.nodes)
          /\ \A n \in DOMAIN engines'[current'].nodes :
                ~engines'[current'].nodes[n].pinned]_vars

\* the graph was resized to another width while a node was held: the new
\* build has that node unpinned, seeded at the edge of the spread around the
\* new centre, while the gesture on the old node goes on
RebuiltWhileDragged ==
    /\ scene = "drawn"
    /\ dimensions.width = 1000
    /\ \E p \in Pointers :
          /\ gestures[p].active
          /\ gestures[p].engine # current
          /\ engines[gestures[p].engine].nodes[gestures[p].subject].pinned
          /\ ~engines[current].nodes[gestures[p].subject].pinned
    /\ \E i \in DOMAIN simulationNodes :
          simulationNodes[i].x = dimensions.width - 2 * SeedSpread

\* where the legend is on the screen: its own translate, carried along by
\* the zoom group's transform only if it is a child of that group
LegendOnScreen ==
    IF legend.parent = "zoom-container" /\ zoomG.set
    THEN <<(legend.at[1] * zoomG.k) \div 10 + zoomG.x,
           (legend.at[2] * zoomG.k) \div 10 + zoomG.y>>
    ELSE legend.at

\* the scene is the same build before and after the step
NoRebuild ==
    /\ UNCHANGED <<constructed, scene, current, dimensions, drawnVars>>
    /\ \A s \in Slots : engines'[s].live = engines[s].live

\* the node the mouse's drag gesture is on, before or after the step
DraggedNode == IF gestures[1].active THEN gestures[1].subject ELSE gestures'[1].subject

\* C18: the hover, zoom and pan handlers, the three zoom buttons included,
\* leave every node's position and pin and the simulation's alpha and
\* alphaTarget unchanged and never rebuild the scene; the drag handlers
\* change only the dragged node's pin and the alphaTarget (and restart the
\* timer); and no zoom or pan step moves the legend on the screen.
HandlersKeepTheirFrame ==
    [][/\ HoverOrZoom =>
             /\ engines' = engines
             /\ NoRebuild
             /\ LegendOnScreen' = LegendOnScreen
       /\ Drag =>
             /\ NoRebuild
             /\ \A s \in Slots :
                   /\ engines'[s].alpha = engines[s].alpha
                   /\ engines'[s].links = engines[s].links
                   /\ DOMAIN engines'[s].nodes = DOMAIN engines[s].nodes
                   /\ \A n \in DOMAIN engines[s].nodes :
                         /\ engines'[s].nodes[n].x = engines[s].nodes[n].x
                         /\ engines'[s].nodes[n].y = engines[s].nodes[n].y
                         /\ (s # current \/ n # DraggedNode) =>
                               engines'[s].nodes[n] = engines[s].nodes[n]]_vars

\* node a is hovered in a zoomed and panned view while node b follows the
\* mouse and the simulation has cooled by a step
HoveredWhileZoomedAndDragging ==
    /\ hoverD = "a"
    /\ tooltip.shown
    /\ zoomG.set /\ zoomG.k = MaxZoom
    /\ CentreOffset(transform, dimensions)[1] > 0
    /\ gestures[1].active /\ gestures[1].moved
    /\ engines[current].nodes["b"].pinned
    /\ engines[current].alpha < AlphaSteps
    /\ engines[current].alphaTarget = DragAlphaTarget
    /\ legend.at = <<dimensions.width - LegendWidth - LegendPadding, LegendPadding>>

\* the number of link ends that are d
EndsAtNode(links, d) ==
    Cardinality({i \in DOMAIN links : links[i].source = d})
        + Cardinality({i \in DOMAIN links : links[i].target = d})

\* no link joins a node to itself and no two links join the same two nodes
SimpleLinks(links) ==
    /\ \A i \in DOMAIN links : links[i].source # links[i].target
    /\ \A i, j \in DOMAIN links :
          i # j => {links[i].source, links[i].target}
                       # {links[j].source, links[j].target}

\* the build has counted, for every node, the link ends of the filtered
\* links that are that node, and the tooltip of the hovered node shows its
\* count
TooltipShowsDegree ==
    /\ DOMAIN nodeConnectionCounts = NodeIdsOf(data.nodes)
    /\ \A id \in DOMAIN nodeConnectionCounts :
          nodeConnectionCounts[id] = EndsAtNode(engines[current].links, id)
    /\ engines[current].links = data.links
    /\ hoverD # "" =>
          /\ tooltip.shown
          /\ tooltip.id = hoverD
          /\ tooltip.connections = EndsAtNode(data.links, hoverD)

\* C19 as stated: the connection count in the tooltip of node d is the
\* number of link ends in the filtered links that are d, held ready since
\* the build, and equals the size of d's highlight set minus one.
CountIsHighlightSetLessOne ==
    scene = "drawn" =>
        /\ TooltipShowsDegree
        /\ hoverD # "" => tooltip.connections = Cardinality(connectedNodeIds) - 1

\* C19: the connection count in the tooltip of node d is the number of link
\* ends in the filtered links that are d (0 for a node with no links), held
\* ready since the build; it equals the size of d's highlight set minus one
\* when no link joins a node to itself and no two links join the same two
\* nodes.
CountIsDegree ==
    scene = "drawn" =>
        /\ TooltipShowsDegree
        /\ (hoverD # "" /\ SimpleLinks(data.links)) =>
              tooltip.connections = Cardinality(connectedNodeIds) - 1

\* a node with two neighbours is hovered: the tooltip shows 2
HoveredWithTwoNeighbours ==
    /\ scene = "drawn"
    /\ hoverD # ""
    /\ SimpleLinks(data.links)
    /\ tooltip.connections = 2
    /\ Cardinality(connectedNodeIds) = 3

\* C20: whenever the network graph is displayed its working width is the
\* container's client width (800 when that width is 0), from the first
\* display on and without any window resize event: the sizing call made on
\* mount has taken effect.
WidthFollowsContainerFromFirstDisplay ==
    (chart = "network" /\ Displayed) =>
        dimensions.width = (IF clientWidth = 0 THEN DefaultWidth ELSE clientWidth)

\* the transform the zoom group is drawn with: its attribute, or the
\* identity when the group has none
GroupTransform ==
    IF zoomG.set THEN Transform(zoomG.k, zoomG.x, zoomG.y) ELSE zoomIdentity

\* C21: whenever the graph is displayed and no zoom transition is running,
\* the transform applied to the zoom group equals the view transform stored
\* on the svg (the one the tooltip is placed with) and zoomLevel equals its
\* scale, also right after a rebuild caused by a resize in a zoomed or
\* panned view.
GroupShowsStoredTransform ==
    (Displayed /\ scene = "drawn" /\ ~transition.active) =>
        /\ GroupTransform = transform
        /\ zoomLevel = transform.k

\* C22: the tooltip is visible only while the pointer is over a node of the
\* current scene, and after a rebuild no element of the scene is dimmed,
\* also when the rebuild came while a node was hovered.
TooltipOnlyOverANode ==
    (Displayed /\ scene = "drawn") =>
        /\ tooltip.shown => pointerOver # ""
        /\ pointerOver = "" =>
              /\ \A id \in DOMAIN nodeStyle : nodeStyle[id].opacity = FullOpacity
              /\ \A i \in DOMAIN linkStyle : linkStyle[i].opacity >= LinkOpacity

====
